---- MODULE Spec2Model ----
(***************************************************************************)
(* A model of dictshield's schema composition (base.py), document         *)
(* instances, validation engine and safe projections (document.py).        *)
(*                                                                         *)
(* Python values are modelled as string tokens, so that values of          *)
(* different Python types can be compared: None, str values, uuid.UUID     *)
(* objects, ints and containers each have their own tokens, and the        *)
(* operators PyType, Truthy, ... give what the interpreter computes.       *)
(***************************************************************************)
EXTENDS Integers, Sequences, FiniteSets, TLC

VARIABLES
    classes,    \* the composed document types, by class name
    doc,        \* the document instance under construction / validation
    values,     \* the caller's mapping handed to a class method (mutated in place)
    values0,    \* the caller's mapping as it was before the call
    call,       \* the last operation invoked, with its arguments
    result,     \* how the last operation ended: a return value or an exception
    uuid_count, \* number of uuid.uuid4() values drawn so far
    other       \* a second document instance, kept to be compared with doc

vars == <<classes, doc, values, values0, call, result, uuid_count, other>>

-----------------------------------------------------------------------------
(* Bounds of the model. *)

MaxKeys == 2        \* keys in a caller's mapping / seed
MaxFields == 2      \* fields declared directly on one document type
MaxClasses == 3     \* document types composed in one run

-----------------------------------------------------------------------------
(* Python values. *)

None == "None"

HexStrs == {"hex-0001"}                      \* strings uuid.UUID() parses
UUIDFromHex(h) == "UUID(" \o h \o ")"         \* uuid.UUID(h)
uuid4(n) == "UUID(uuid4-" \o ToString(n) \o ")"   \* the n-th uuid.uuid4()

StrVals == {"", " ", "x", "Bob"} \cup HexStrs
UUIDVals == {UUIDFromHex(h) : h \in HexStrs} \cup {uuid4(n) : n \in 1..(2 * (MaxFields + 1))}
IntVals == {"0", "5"}
DictVals == {"{}", "{'city': 'x'}"}          \* dicts with string keys
ListVals == {"[]", "['a']", "[{'k': 1}]", "[{}]", "[{'city': 'x'}]", "[E(city='x')]"}
EmbeddedVals == {"E()", "E(city='x')"}       \* instances of the embedded type E

PyType(v) ==
    CASE v = None -> "NoneType"
      [] v \in StrVals -> "str"
      [] v \in UUIDVals -> "UUID"
      [] v \in IntVals -> "int"
      [] v \in DictVals -> "dict"
      [] v \in ListVals -> "list"
      [] v \in EmbeddedVals -> "EmbeddedDocument"
      [] OTHER -> "object"

\* len(v) of a container
PyLen(v) ==
    CASE v \in {"{}", "[]"} -> 0
      [] OTHER -> 1

\* bool(v)
Truthy(v) ==
    CASE v = None -> FALSE
      [] v \in {"", "0", "{}", "[]"} -> FALSE
      [] OTHER -> TRUE

\* len(s.strip()) == 0 for a str s
IsBlankStr(v) == v \in {"", " "}

\* whether v[0] evaluates: a non-empty list has an item 0, a dict with
\* string keys has no key 0
HasItem0(v) == PyType(v) = "list" /\ PyLen(v) > 0

-----------------------------------------------------------------------------
(* Exceptions and results of calls. *)

NoExc == [type |-> "None", reason |-> "", field_name |-> None, field_value |-> None]

\* ShieldException(reason, field_name, field_value)
ShieldException(reason, field_name, field_value) ==
    [type |-> "ShieldException", reason |-> reason,
     field_name |-> field_name, field_value |-> field_value]

\* any other exception type; field_name records where it arose (not a Python attribute)
PyError(type, reason, field_name) ==
    [type |-> type, reason |-> reason, field_name |-> field_name, field_value |-> None]

Raised(r) == r.exc.type # "None"

NoResult == [exc |-> NoExc, ret |-> "None", errors |-> <<>>, mapping |-> <<>>]

-----------------------------------------------------------------------------
(* Field descriptors (base.py, BaseField and UUIDField). *)

\* An optional Python attribute: <<>> when it is None / not declared, <<x>> otherwise.
Nothing == <<>>
Some(x) == <<x>>

\* custom validators: None, a predicate that accepts only "x", a non-callable
Validations == {None, "accepts_x", "not_callable"}
ValidationCallable(f) == f = "accepts_x"
ValidationAccepts(f, v) == f = "accepts_x" /\ v = "x"

\* zero-argument producers usable as a default
Producers == {"lambda: 'Bob'"}
Callable(v) == v \in Producers
CallProducer(p) == "Bob"

\* BaseField.__init__ / UUIDField.__init__
Field(kind, uniq_field, required, default, id_field, validation, choices) ==
    [kind |-> kind,
     uniq_field |-> IF id_field THEN "_id" ELSE uniq_field,   \* field_name is None here
     field_name |-> None,
     required |-> required,
     default |-> default,
     id_field |-> id_field,
     validation |-> validation,
     choices |-> choices]

NoField == [kind |-> "None", uniq_field |-> None, field_name |-> None, required |-> FALSE,
            default |-> None, id_field |-> FALSE, validation |-> None, choices |-> Nothing]

\* all orders in which a dict with key set S may be iterated
Orders(S) == {o \in [1..Cardinality(S) -> S] : \A i, j \in 1..Cardinality(S) : o[i] = o[j] => i = j}

-----------------------------------------------------------------------------
(* Schema composition (base.py, DocumentMetaclass and TopLevelDocumentMetaclass). *)

NoClass == [name |-> "", kind |-> "None"]

NoError == "None"

RECURSIVE JoinDots(_)
\* '.'.join(names)
JoinDots(names) ==
    IF Len(names) = 0 THEN ""
    ELSE IF Len(names) = 1 THEN names[1]
    ELSE names[1] \o "." \o JoinDots(Tail(names))

RECURSIVE Reversed(_)
Reversed(s) == IF Len(s) = 0 THEN <<>> ELSE Append(Reversed(Tail(s)), s[1])

\* an update in which the entries already present win
DictUpdate_keep_first(f, g) ==
    [k \in (DOMAIN f) \cup (DOMAIN g) |-> IF k \in DOMAIN f THEN f[k] ELSE g[k]]

\* dict.update: the entries of g override those of f
DictUpdate(f, g) ==
    [k \in (DOMAIN f) \cup (DOMAIN g) |-> IF k \in DOMAIN g THEN g[k] ELSE f[k]]

RECURSIVE MergeBases_unlocked(_, _, _)
\* the loop over bases without the allow_inheritance test
MergeBases_unlocked(bases, i, acc) ==
    IF i > Len(bases) THEN acc
    ELSE
        LET base == bases[i]
            fields1 == DictUpdate(acc.doc_fields, base._fields)
            names1 == Append(acc.class_name, base._class_name)
            supers1 == (acc.superclasses \cup {base._class_name}) \cup base._superclasses
        IN  MergeBases_unlocked(bases, i + 1,
                [acc EXCEPT !.doc_fields = fields1,
                            !.class_name = IF base._meta.mixin
                                           THEN SubSeq(names1, 1, Len(names1) - 1)
                                           ELSE names1,
                            !.superclasses = IF base._meta.mixin
                                             THEN supers1 \ {base._class_name}
                                             ELSE supers1,
                            !.simple_class = FALSE])

RECURSIVE MergeBases(_, _, _)
\* the loop over bases of DocumentMetaclass.__new__; acc carries doc_fields,
\* class_name, superclasses, simple_class and the first error raised
MergeBases(bases, i, acc) ==
    IF i > Len(bases) \/ acc.error # NoError THEN acc
    ELSE
        LET base == bases[i]
            \* every composed class has both _fields and _meta
            fields1 == DictUpdate(acc.doc_fields, base._fields)
            names1 == Append(acc.class_name, base._class_name)
            supers1 == (acc.superclasses \cup {base._class_name}) \cup base._superclasses
        IN  IF base._meta.allow_inheritance = FALSE
            THEN [acc EXCEPT !.error = "ValueError: Document may not be subclassed"]
            ELSE IF base._meta.mixin
            THEN MergeBases(bases, i + 1,
                    [acc EXCEPT !.doc_fields = fields1,
                                !.class_name = SubSeq(names1, 1, Len(names1) - 1),
                                !.superclasses = supers1 \ {base._class_name},
                                !.simple_class = FALSE])
            ELSE MergeBases(bases, i + 1,
                    [acc EXCEPT !.doc_fields = fields1,
                                !.class_name = names1,
                                !.superclasses = supers1,
                                !.simple_class = FALSE])

\* the field loop of DocumentMetaclass.__new__: name the descriptor declared as attr_name
BindField(attr_name, f) ==
    [f EXCEPT !.field_name = attr_name,
              !.uniq_field = IF f.uniq_field = None THEN attr_name ELSE f.uniq_field]

\* class attribute lookup through the bases, for an attribute kept as an Option
InheritAttr(own, bases, attr) ==
    IF own # Nothing THEN own
    ELSE IF \E i \in 1..Len(bases) : bases[i][attr] # Nothing
    THEN bases[CHOOSE i \in 1..Len(bases) :
                  /\ bases[i][attr] # Nothing
                  /\ \A j \in 1..(i - 1) : bases[j][attr] = Nothing][attr]
    ELSE Nothing

RECURSIVE MroDescriptors(_, _)
\* the descriptors a class inherits as class attributes: attribute lookup
\* takes the first base that has the name
MroDescriptors(bases, i) ==
    IF i > Len(bases) THEN <<>>
    ELSE DictUpdate(MroDescriptors(bases, i + 1), bases[i].descriptors)

RECURSIVE MergeOrigins(_, _)
\* which descriptor object each inherited name holds after the
\* doc_fields.update(base._fields) of every base: a descriptor object is
\* named by the class whose body created it
MergeOrigins(bases, i) ==
    IF i = 0 THEN <<>>
    ELSE DictUpdate(MergeOrigins(bases, i - 1), bases[i].origin)

\* DocumentMetaclass.__new__(name, bases, attrs), with attrs['_meta'] as
\* prepared by the caller (meta) for a top-level type
DocumentMetaclass_new(kind, name, bases, attrs, meta) ==
    LET acc0 == [doc_fields |-> <<>>, class_name |-> <<name>>, superclasses |-> {},
                 simple_class |-> TRUE, error |-> NoError]
        acc == MergeBases(bases, 1, acc0)
        allow == IF meta.allow_inheritance = Nothing THEN TRUE ELSE meta.allow_inheritance[1]
        own == [n \in DOMAIN attrs.fields |-> BindField(n, attrs.fields[n])]
        doc_fields == DictUpdate(acc.doc_fields, own)
    IN  IF acc.error # NoError THEN [error |-> acc.error, cls |-> NoClass]
        ELSE IF ~acc.simple_class /\ ~allow
        THEN [error |-> "ValueError: Only direct subclasses of Document may set allow_inheritance to False",
              cls |-> NoClass]
        ELSE [error |-> NoError,
              cls |-> [name |-> name,
                       kind |-> kind,
                       _fields |-> doc_fields,
                       _class_name |-> JoinDots(Reversed(acc.class_name)),
                       _superclasses |-> acc.superclasses,
                       _meta |-> [allow_inheritance |-> allow,
                                  mixin |-> meta.mixin,
                                  id_field |-> meta.id_field],
                       \* the class attributes that are field descriptors
                       descriptors |-> DictUpdate(MroDescriptors(bases, 1), own),
                       \* the composed classes of the type's __mro__, itself excluded
                       ancestors |-> UNION {{bases[i].name} \cup bases[i].ancestors :
                                               i \in 1..Len(bases)},
                       origin |-> DictUpdate(MergeOrigins(bases, Len(bases)),
                                             [n \in DOMAIN own |-> name]),
                       \* field.owner_document = new_class, for every field
                       owner_document |-> [n \in DOMAIN doc_fields |-> name],
                       _private_fields |-> InheritAttr(attrs._private_fields, bases, "_private_fields"),
                       _public_fields |-> InheritAttr(attrs._public_fields, bases, "_public_fields")]]

RECURSIVE BaseIdField(_, _, _)
\* id_field = id_field or base._meta.get('id_field'), over the bases
BaseIdField(bases, i, id_field) ==
    IF i > Len(bases) THEN id_field
    ELSE BaseIdField(bases, i + 1,
                     IF id_field # None THEN id_field ELSE bases[i]._meta.id_field)

RECURSIVE IdFieldLoop(_, _, _, _)
\* the loop over new_class._fields.items() that looks for a custom id key;
\* st carries _meta['id_field'], the field last aliased as the class
\* attribute `id`, and the error raised
IdFieldLoop(fields, order, i, st) ==
    IF i > Len(order) \/ st.error # NoError THEN st
    ELSE
        LET field_name == order[i]
            field == fields[field_name]
        IN  IF field.id_field
            THEN IF st.id_field # None /\ st.id_field # field_name
                 THEN [st EXCEPT !.error = "ValueError: Cannot override id_field"]
                 ELSE IdFieldLoop(fields, order, i + 1,
                                  [st EXCEPT !.id_field = field_name, !.id = field])
            ELSE IdFieldLoop(fields, order, i + 1, st)

\* a synthesized identity field that is a plain BaseField: nothing generates its value
SynthesizedId_plain == Field("BaseField", "_id", FALSE, None, FALSE, None, Nothing)

\* the identity field synthesized for a top-level type without one:
\* UUIDField(uniq_field='_id'); it is never bound, so its field_name stays None
SynthesizedId == Field("UUIDField", "_id", FALSE, None, FALSE, None, Nothing)

\* TopLevelDocumentMetaclass.__new__(name, bases, attrs); order is the
\* iteration order of new_class._fields
TopLevelDocumentMetaclass_new(name, bases, attrs, order) ==
    LET id_field == BaseIdField(bases, 1, None)
        meta == [allow_inheritance |-> attrs.meta.allow_inheritance,
                 mixin |-> attrs.meta.mixin,
                 id_field |-> id_field]
        made == DocumentMetaclass_new("top", name, bases, attrs, meta)
        new_class == made.cls
        st == IdFieldLoop(new_class._fields, order, 1,
                          [id_field |-> new_class._meta.id_field, id |-> NoField,
                           error |-> NoError])
    IN  IF made.error # NoError THEN made
        \* the class object exists (and has rebound its fields' owner_document)
        \* when the id loop raises
        ELSE IF st.error # NoError THEN [error |-> st.error, cls |-> new_class]
        ELSE IF st.id_field = None
        THEN [error |-> NoError,
              cls |-> [new_class EXCEPT !._meta.id_field = "id",
                                        !._fields = DictUpdate(new_class._fields,
                                                               [n \in {"id"} |-> SynthesizedId]),
                                        !.descriptors = DictUpdate(new_class.descriptors,
                                                                   [n \in {"id"} |-> SynthesizedId]),
                                        !.origin = DictUpdate(new_class.origin,
                                                              [n \in {"id"} |-> name]),
                                        \* created after the owner_document loop
                                        !.owner_document =
                                            DictUpdate(new_class.owner_document,
                                                       [n \in {"id"} |-> None])]]
        ELSE [error |-> NoError,
              cls |-> [new_class EXCEPT !._meta.id_field = st.id_field,
                                        \* new_class.id = field, when a field is marked
                                        !.descriptors = IF st.id = NoField THEN new_class.descriptors
                                                        ELSE DictUpdate(new_class.descriptors,
                                                                        [n \in {"id"} |-> st.id])]]

\* class EmbeddedDocument subclasses go through DocumentMetaclass alone
EmbeddedDocumentMetaclass_new(name, bases, attrs) ==
    DocumentMetaclass_new("embedded", name, bases, attrs,
                          [allow_inheritance |-> attrs.meta.allow_inheritance,
                           mixin |-> attrs.meta.mixin,
                           id_field |-> None])

\* the class statement: class name(bases): attrs
ComposeClass(kind, name, bases, attrs, order) ==
    IF kind = "top" THEN TopLevelDocumentMetaclass_new(name, bases, attrs, order)
    ELSE EmbeddedDocumentMetaclass_new(name, bases, attrs)

-----------------------------------------------------------------------------
(* Document instances (base.py BaseField.__get__/__set__, UUIDField.__set__; *)
(* document.py BaseDocument).                                               *)

DictGet(d, k) == IF k \in DOMAIN d THEN d[k] ELSE None

DictSet(d, k, v) == [x \in (DOMAIN d) \cup {k} |-> IF x = k THEN v ELSE d[x]]

DictDel(d, k) == [x \in (DOMAIN d) \ {k} |-> d[x]]

\* BaseField.__get__(instance, owner)
FieldGet(f, inst) ==
    LET value == DictGet(inst._data, f.field_name)
    IN  IF value = None
        THEN IF Callable(f.default) THEN CallProducer(f.default) ELSE f.default
        ELSE value

\* BaseField.__set__ and UUIDField.__set__; st is the instance being
\* built, with the count of uuid4() calls and the error raised
FieldSet(f, st, value) ==
    IF f.kind = "UUIDField"
    THEN LET fresh == ~Truthy(value)
             v1 == IF fresh THEN uuid4(st.uuid_count + 1) ELSE value
             n1 == IF fresh THEN st.uuid_count + 1 ELSE st.uuid_count
         IN  IF PyType(v1) = "str"
             THEN IF v1 \in HexStrs
                  THEN [st EXCEPT !._data = DictSet(st._data, f.field_name, UUIDFromHex(v1)),
                                  !.uuid_count = n1]
                  ELSE [st EXCEPT !.error = "ValueError: badly formed hexadecimal UUID string",
                                  !.uuid_count = n1]
             ELSE [st EXCEPT !._data = DictSet(st._data, f.field_name, v1), !.uuid_count = n1]
    ELSE [st EXCEPT !._data = DictSet(st._data, f.field_name, value)]

\* getattr(self, name, None)
GetAttr(cls, inst, name) ==
    IF name \in DOMAIN cls.descriptors THEN FieldGet(cls.descriptors[name], inst)
    ELSE DictGet(inst.attrs, name)

\* setattr(self, name, value): through the descriptor when the class has
\* one, else a plain instance attribute; the values store is itself the
\* instance attribute _data, so assigning that name an empty dict replaces it
SetAttr(cls, st, name, value) ==
    IF name \in DOMAIN cls.descriptors THEN FieldSet(cls.descriptors[name], st, value)
    ELSE IF name = "_data" /\ value = "{}" THEN [st EXCEPT !._data = <<>>]
    ELSE [st EXCEPT !.attrs = DictSet(st.attrs, name, value)]

RECURSIVE AssignDefaults(_, _, _, _)
\* first loop of BaseDocument.__init__
AssignDefaults(cls, order, i, st) ==
    IF i > Len(order) \/ st.error # NoError THEN st
    ELSE AssignDefaults(cls, order, i + 1,
                        SetAttr(cls, st, order[i], GetAttr(cls, st, order[i])))

RECURSIVE AssignSeed(_, _, _, _, _)
\* second loop of BaseDocument.__init__
AssignSeed(cls, seed, order, i, st) ==
    IF i > Len(order) \/ st.error # NoError THEN st
    ELSE LET attr_name == IF order[i] = "_id" THEN "id" ELSE order[i]
         IN  AssignSeed(cls, seed, order, i + 1, SetAttr(cls, st, attr_name, seed[order[i]]))

\* BaseDocument.__init__(**values)
NewDocument(cls, seed, field_order, seed_order, n) ==
    LET st0 == [cls |-> cls.name, _data |-> <<>>, attrs |-> <<>>,
                uuid_count |-> n, error |-> NoError]
    IN  AssignSeed(cls, seed, seed_order, 1, AssignDefaults(cls, field_order, 1, st0))

NoDocument == [cls |-> "", _data |-> <<>>, attrs |-> <<>>, uuid_count |-> 0, error |-> NoError]

\* UUIDField.validate / BaseField.validate: the exception raised, or NoExc
KindValidate(f, value) ==
    IF f.kind = "UUIDField" /\ PyType(value) # "UUID"
    THEN IF PyType(value) = "str"
         THEN IF value \in HexStrs THEN NoExc
              ELSE ShieldException("Not a valid UUID value", f.field_name, value)
         \* uuid.UUID(value) of a non-string: value.replace does not exist
         ELSE PyError("AttributeError", "object has no attribute 'replace'", f.field_name)
    ELSE NoExc

\* ShieldException(reason) as BaseField._validate calls it: the
\* constructor requires reason, field_name and field_value
ShieldExceptionOneArg(reason, f) ==
    PyError("TypeError", "__init__() takes at least 4 arguments (2 given)", f.field_name)

\* BaseField._validate(value): the exception raised, or NoExc
Field_validate(f, value) ==
    IF f.choices # Nothing /\ value \notin f.choices[1]
    THEN ShieldExceptionOneArg("Value must be one of", f)
    ELSE IF f.validation # None /\ ValidationCallable(f.validation)
            /\ ~ValidationAccepts(f.validation, value)
    THEN ShieldExceptionOneArg("Value does not match custom validation method.", f)
    ELSE IF f.validation # None /\ ~ValidationCallable(f.validation)
    THEN PyError("ValueError", "validation argument must be a callable.", f.field_name)
    ELSE KindValidate(f, value)

\* a loop body that treats the empty string as a value
ValidateField_empty_is_value(cls, inst, name) ==
    LET field == cls._fields[name]
        value == GetAttr(cls, inst, name)
        e == Field_validate(field, value)
    IN  IF value # None
        THEN IF e.type \in {"ValueError", "AttributeError", "AssertionError"}
             THEN ShieldException("Invalid value", field.field_name, value)
             ELSE e
        ELSE IF field.required
        THEN ShieldException("Required field missing", field.field_name, value)
        ELSE NoExc

\* one iteration of the loop of BaseDocument.validate, for field name `name`
ValidateField(cls, inst, name) ==
    LET field == cls._fields[name]
        value == GetAttr(cls, inst, name)
        e == Field_validate(field, value)
    IN  IF value # None /\ value # ""
        THEN IF e.type \in {"ValueError", "AttributeError", "AssertionError"}
             THEN ShieldException("Invalid value", field.field_name, value)
             ELSE e
        ELSE IF field.required
        THEN ShieldException("Required field missing", field.field_name, value)
        ELSE NoExc

RECURSIVE ValidateLoop(_, _, _, _, _)
\* the loop of BaseDocument.validate; st carries the exception raised and
\* the names of the fields whose _validate was invoked
ValidateLoop(cls, inst, order, i, st) ==
    IF i > Len(order) \/ st.exc # NoExc THEN st
    ELSE LET value == GetAttr(cls, inst, order[i])
             called == value # None /\ value # ""
         IN  ValidateLoop(cls, inst, order, i + 1,
                          [exc |-> ValidateField(cls, inst, order[i]),
                           at |-> order[i],
                           validated |-> IF called THEN st.validated \cup {order[i]}
                                         ELSE st.validated])

\* BaseDocument.validate()
Validate(cls, inst, order) ==
    ValidateLoop(cls, inst, order, 1, [exc |-> NoExc, at |-> None, validated |-> {}])

RECURSIVE ToFieldsLoop(_, _, _, _, _)
\* first loop of BaseDocument._to_fields, with for_python as converter
ToFieldsLoop(cls, inst, order, i, data) ==
    IF i > Len(order) THEN data
    ELSE LET field == cls._fields[order[i]]
             value == GetAttr(cls, inst, order[i])
         IN  ToFieldsLoop(cls, inst, order, i + 1,
                          IF value # None THEN DictSet(data, field.uniq_field, value) ELSE data)

\* list(self._superclasses.keys() + [self._class_name]), as a token
\* a type list that names the type alone
TypesOf_own_chain(cls) == [keys |-> {}, last |-> cls._class_name]

\* the keys of the ancestor map come in dict order, so the list is kept as
\* the set of those keys and the element appended to them
TypesOf(cls) == [keys |-> cls._superclasses, last |-> cls._class_name]

\* BaseDocument.to_python()
ToPython(cls, inst, order) ==
    LET data1 == ToFieldsLoop(cls, inst, order, 1, <<>>)
        data2 == IF cls._meta.allow_inheritance = FALSE THEN data1
                 ELSE DictSet(DictSet(data1, "_cls", cls._class_name), "_types", TypesOf(cls))
    IN  IF "_id" \in DOMAIN data2 /\ ~Truthy(data2["_id"]) THEN DictDel(data2, "_id")
        ELSE data2

\* isinstance(inst, cls), given the class of inst
IsInstance(inst_cls, cls) == inst_cls.name = cls.name \/ cls.name \in inst_cls.ancestors

\* hasattr(inst, name): a field descriptor of the class or an instance attribute
HasAttr(cls, inst, name) == name \in DOMAIN cls.descriptors \/ name \in DOMAIN inst.attrs

\* BaseDocument.__eq__(self, other): the value returned, or the
\* AttributeError of self.id
BaseDocument_eq(self_cls, self, other_cls, other_inst) ==
    IF IsInstance(other_cls, self_cls) /\ HasAttr(other_cls, other_inst, "id")
    THEN IF ~HasAttr(self_cls, self, "id")
         THEN [exc |-> PyError("AttributeError", "object has no attribute 'id'", None),
               ret |-> "None"]
         ELSE IF GetAttr(self_cls, self, "id") = GetAttr(other_cls, other_inst, "id")
         THEN [exc |-> NoExc, ret |-> "True"]
         ELSE [exc |-> NoExc, ret |-> "False"]
    ELSE [exc |-> NoExc, ret |-> "False"]

-----------------------------------------------------------------------------
(* Safe projections (document.py, SafeableMixin). *)

_internal_fields == {"_id", "id", "_cls", "_types"}

\* SafeableMixin._get_internal_fields
_get_internal_fields(cls) ==
    IF cls._private_fields # Nothing
    THEN _internal_fields \cup cls._private_fields[1]
    ELSE _internal_fields

\* isinstance(v, EmbeddedDocument)
IsEmbeddedDocument(v) == PyType(v) = "EmbeddedDocument"

\* v[0] of a non-empty list
Item0(v) == IF v = "[E(city='x')]" THEN "E(city='x')" ELSE "item"

\* the instance of the embedded type E a value denotes: E(**seed)
EmbeddedInstance(v) ==
    LET seed == IF v = "E(city='x')" THEN [n \in {"city"} |-> "x"] ELSE <<>>
        order == CHOOSE o \in Orders(DOMAIN seed) : TRUE
        field_order == CHOOSE o \in Orders(DOMAIN classes["E"]._fields) : TRUE
    IN  NewDocument(classes["E"], seed, field_order, order, 0)

\* the dict a safe projection of an E instance returns, as a value
DictToken(m) ==
    CASE DOMAIN m = {} -> "{}"
      [] DOMAIN m = {"city"} /\ m["city"] = "x" -> "{'city': 'x'}"

\* v.to_python() of an embedded document v
EmbeddedExport(v) ==
    ToPython(classes["E"], EmbeddedInstance(v),
             CHOOSE o \in Orders(DOMAIN classes["E"]._fields) : TRUE)

\* the embedded document handle_doc projects for the value v: v itself, or
\* v[0] of a non-empty list
EmbeddedOf(v) == IF IsEmbeddedDocument(v) THEN v ELSE Item0(v)

HoldsEmbedded(v) ==
    \/ IsEmbeddedDocument(v)
    \/ PyType(v) = "list" /\ PyLen(v) > 0 /\ IsEmbeddedDocument(Item0(v))

\* one iteration of the loop of handle_doc, for the item (k, v) of
\* doc_dict; delete_key tells whether k is to be deleted, nested is what
\* the safe projection of the embedded document in v comes to.  st carries
\* the dict and the exception raised.
HandleItem(nested, delete_key, k, st) ==
    LET v == st.doc_dict[k]
    IN  IF delete_key THEN [st EXCEPT !.doc_dict = DictDel(st.doc_dict, k)]
        ELSE IF IsEmbeddedDocument(v)
        THEN IF nested.exc # NoExc THEN [st EXCEPT !.exc = nested.exc]
             ELSE [st EXCEPT !.doc_dict = DictSet(st.doc_dict, k, DictToken(nested.doc_dict))]
        ELSE IF PyType(v) \in {"list", "dict"} /\ PyLen(v) > 0
        THEN IF ~HasItem0(v) THEN [st EXCEPT !.exc = PyError("KeyError", "0", k)]
             ELSE IF IsEmbeddedDocument(Item0(v))
             THEN IF nested.exc # NoExc THEN [st EXCEPT !.exc = nested.exc]
                  ELSE [st EXCEPT !.doc_dict =
                           DictSet(st.doc_dict, k, "[" \o DictToken(nested.doc_dict) \o "]")]
             ELSE st
        ELSE st

RECURSIVE OwnersafeLoop(_, _, _, _)
\* handle_doc of make_ownersafe: the blacklist.  An embedded document is
\* projected by its own make_ownersafe on its export; its values are
\* primitives, so the order of the items of the export does not matter.
OwnersafeLoop(internal_fields, order, i, st) ==
    IF i > Len(order) \/ st.exc # NoExc THEN st
    ELSE LET v == st.doc_dict[order[i]]
             data == EmbeddedExport(EmbeddedOf(v))
             nested == IF order[i] \notin internal_fields /\ HoldsEmbedded(v)
                       THEN OwnersafeLoop(_get_internal_fields(classes["E"]),
                                          CHOOSE o \in Orders(DOMAIN data) : TRUE, 1,
                                          [doc_dict |-> data, exc |-> NoExc])
                       ELSE st
         IN  OwnersafeLoop(internal_fields, order, i + 1,
                           HandleItem(nested, order[i] \in internal_fields, order[i], st))

RECURSIVE PublicsafeLoop(_, _, _, _)
\* handle_doc of make_publicsafe: the whitelist.  An embedded document is
\* projected by its own make_publicsafe on its export.
PublicsafeLoop(public_fields, order, i, st) ==
    IF i > Len(order) \/ st.exc # NoExc THEN st
    ELSE LET v == st.doc_dict[order[i]]
             data == EmbeddedExport(EmbeddedOf(v))
             start == [doc_dict |-> data, exc |-> NoExc]
             data_order == CHOOSE o \in Orders(DOMAIN data) : TRUE
             nested == IF order[i] \in public_fields /\ HoldsEmbedded(v)
                       THEN IF classes["E"]._public_fields = Nothing
                            THEN OwnersafeLoop(_get_internal_fields(classes["E"]),
                                               data_order, 1, start)
                            ELSE PublicsafeLoop(classes["E"]._public_fields[1],
                                                data_order, 1, start)
                       ELSE st
         IN  PublicsafeLoop(public_fields, order, i + 1,
                            HandleItem(nested, order[i] \notin public_fields, order[i], st))

\* SafeableMixin.make_ownersafe(doc_dict) for a dict; order is the order
\* of doc_dict.items()
make_ownersafe(cls, doc_dict, order) ==
    OwnersafeLoop(_get_internal_fields(cls), order, 1, [doc_dict |-> doc_dict, exc |-> NoExc])

\* make_publicsafe with the whitelist applied after the blacklist
make_publicsafe_blacklist_first(cls, doc_dict, order) ==
    IF cls._public_fields = Nothing THEN make_ownersafe(cls, doc_dict, order)
    ELSE PublicsafeLoop(cls._public_fields[1] \ _get_internal_fields(cls), order, 1,
                        [doc_dict |-> doc_dict, exc |-> NoExc])

\* SafeableMixin.make_publicsafe(doc_dict) for a dict
make_publicsafe(cls, doc_dict, order) ==
    IF cls._public_fields = Nothing THEN make_ownersafe(cls, doc_dict, order)
    ELSE PublicsafeLoop(cls._public_fields[1], order, 1, [doc_dict |-> doc_dict, exc |-> NoExc])

-----------------------------------------------------------------------------
(* Validation engine (document.py, SafeableMixin._validate_helper). *)

\* field_inspector of validate_class_fields ("full") and of
\* validate_class_partial ("partial")
field_inspector(mode, k, v, vals) ==
    IF mode = "full" THEN v.required \/ k \in DOMAIN vals
    ELSE k \in DOMAIN vals

\* handle common id name: if k is 'id': k = '_id' (both names are
\* interned identifiers, so `is` is equality here)
CommonIdName(k) == IF k = "id" THEN "_id" ELSE k

\* values[k] is v.default: None is a singleton; two equal values that are
\* not None may or may not be the same object (same_object)
IsDefault(value, default, same_object) ==
    IF value = None \/ default = None THEN value = default
    ELSE value = default /\ same_object

\* one iteration of the loop over cls._fields.items(); st carries the
\* exceptions collected, class_fields, and the exception raised out of the call
HelperStep(cls, mode, vals, validate_all, name, same_object, st) ==
    LET v == cls._fields[name]
        k == CommonIdName(name)
        st1 == [st EXCEPT !.class_fields = Append(st.class_fields, k)]
        overwrite == /\ k \in _get_internal_fields(cls)
                     /\ k \in DOMAIN vals
                     /\ ~IsDefault(vals[k], v.default, same_object)
        e_over == ShieldException("Overwrite of internal fields attempted", k, "<field>")
        e_kind == KindValidate(v, vals[k])
    IN  IF overwrite
        THEN IF validate_all
             THEN [st1 EXCEPT !.exceptions = Append(st1.exceptions, e_over)]
             ELSE [st1 EXCEPT !.exc = e_over]
        ELSE IF field_inspector(mode, k, v, vals)
        THEN IF k \notin DOMAIN vals
             THEN [st1 EXCEPT !.exc = PyError("KeyError", k, k)]      \* datum = values[k]
             ELSE IF vals[k] = None THEN st1
             ELSE IF PyType(vals[k]) = "str" /\ IsBlankStr(vals[k]) THEN st1
             ELSE IF e_kind = NoExc THEN st1
             ELSE IF e_kind.type = "ShieldException"
             THEN IF validate_all
                  THEN [st1 EXCEPT !.exceptions = Append(st1.exceptions, e_kind)]
                  ELSE [st1 EXCEPT !.exc = e_kind]
             ELSE [st1 EXCEPT !.exc = e_kind]
        ELSE st1

RECURSIVE HelperLoop(_, _, _, _, _, _, _, _)
HelperLoop(cls, mode, vals, validate_all, order, same_object, i, st) ==
    IF i > Len(order) \/ st.exc # NoExc THEN st
    ELSE HelperLoop(cls, mode, vals, validate_all, order, same_object, i + 1,
                    HelperStep(cls, mode, vals, validate_all, order[i], same_object, st))

\* "Remove rogue fields": the keys of values left after the deletions
RemoveRogues(vals, class_fields) ==
    IF Len(class_fields) > 0
    THEN [k \in (DOMAIN vals) \cap {class_fields[i] : i \in 1..Len(class_fields)} |-> vals[k]]
    ELSE vals

\* _validate_helper with the rogue fields removed on every exit
_validate_helper_strip_always(cls, mode, vals, validate_all, order, same_object) ==
    LET st == HelperLoop(cls, mode, vals, validate_all, order, same_object, 1,
                         [exceptions |-> <<>>, class_fields |-> <<>>, exc |-> NoExc])
    IN  [exc |-> st.exc,
         ret |-> IF st.exc # NoExc THEN "None" ELSE IF validate_all THEN "list" ELSE "True",
         errors |-> IF st.exc # NoExc THEN <<>> ELSE st.exceptions,
         values |-> RemoveRogues(vals, st.class_fields)]

\* SafeableMixin._validate_helper(field_inspector, values, validate_all):
\* the exception raised or the value returned, and values as the call leaves it
_validate_helper(cls, mode, vals, validate_all, order, same_object) ==
    LET st == HelperLoop(cls, mode, vals, validate_all, order, same_object, 1,
                         [exceptions |-> <<>>, class_fields |-> <<>>, exc |-> NoExc])
    IN  IF st.exc # NoExc
        THEN [exc |-> st.exc, ret |-> "None", errors |-> <<>>, values |-> vals]
        ELSE [exc |-> NoExc,
              ret |-> IF validate_all THEN "list" ELSE "True",
              errors |-> st.exceptions,
              values |-> RemoveRogues(vals, st.class_fields)]

-----------------------------------------------------------------------------
(* Inputs: class statements, seeds and mappings drawn from small sets. *)

ClassNames == <<"A", "B", "C", "D">>

\* all dicts with at most n of the given keys and values from vals
Dicts(keys, vals, n) ==
    UNION {[D -> vals] : D \in {S \in SUBSET keys : Cardinality(S) <= n}}

\* all dicts with at most n of the given keys, key k holding a value of V(k)
DictsBy(keys, V(_), n) ==
    UNION {{m \in [D -> UNION {V(k) : k \in D}] : \A k \in D : m[k] \in V(k)} :
              D \in {S \in SUBSET keys : Cardinality(S) <= n}}

NoMeta == [allow_inheritance |-> Nothing, mixin |-> FALSE]

ClassBody(fields, private, public) ==
    [fields |-> fields, meta |-> NoMeta, _private_fields |-> private, _public_fields |-> public]

PlainField == Field("BaseField", None, FALSE, None, FALSE, None, Nothing)
RequiredField == Field("BaseField", None, TRUE, None, FALSE, None, Nothing)
DefaultField == Field("BaseField", None, FALSE, "x", FALSE, None, Nothing)
RequiredDefaultField == Field("BaseField", None, TRUE, "Bob", FALSE, None, Nothing)
ChoicesField == Field("BaseField", None, FALSE, None, FALSE, None, Some({"x"}))
RequiredChoicesField == Field("BaseField", None, TRUE, None, FALSE, None, Some({"x"}))
ValidatorField == Field("BaseField", None, FALSE, None, FALSE, "accepts_x", Nothing)
BadValidatorField == Field("BaseField", None, FALSE, None, FALSE, "not_callable", Nothing)
PlainUUIDField == Field("UUIDField", None, FALSE, None, FALSE, None, Nothing)
IdUUIDField == Field("UUIDField", None, FALSE, None, TRUE, None, Nothing)
IdPlainField == Field("BaseField", None, FALSE, None, TRUE, None, Nothing)

\* the field names the composed class will have (the keys of new_class._fields
\* before an identity field is synthesized)
FieldNamesOf(bases, attrs) ==
    (DOMAIN attrs.fields) \cup UNION {DOMAIN classes[bases[i]]._fields : i \in 1..Len(bases)}

\* sequences of distinct defined classes usable as bases: Python refuses a
\* base list that names a class before one of its own subclasses (no
\* consistent method resolution order)
BaseLists ==
    ({<<>>} \cup {<<b>> : b \in DOMAIN classes})
        \cup {p \in (DOMAIN classes) \X (DOMAIN classes) :
                 p[1] # p[2] /\ p[1] \notin classes[p[2]].ancestors}

-----------------------------------------------------------------------------
(* Operations. *)

Init ==
    /\ classes = <<>>
    /\ doc = NoDocument
    /\ values = <<>>
    /\ values0 = <<>>
    /\ call = [op |-> "none"]
    /\ result = NoResult
    /\ uuid_count = 0
    /\ other = NoDocument

\* the effect on the classes already composed of the loop
\* `for field in new_class._fields.values(): field.owner_document = new_class`:
\* an inherited descriptor is the ancestor's own object
RebindOwners(cs, new_class) ==
    [c \in DOMAIN cs |->
        [cs[c] EXCEPT !.owner_document =
            [n \in DOMAIN cs[c]._fields |->
                IF /\ n \in DOMAIN new_class._fields
                   /\ new_class.origin[n] = cs[c].origin[n]
                   /\ new_class.owner_document[n] = new_class.name
                THEN new_class.name
                ELSE cs[c].owner_document[n]]]]

\* class name(bases): attrs -- the metaclass composes the schema; a
\* ValueError raised by the metaclass is fatal at type-definition time
DefineClass(kind, name, bases, attrs, order) ==
    /\ name \notin DOMAIN classes
    /\ result.exc = NoExc      \* a configuration error ends the program
    /\ \E made \in {ComposeClass(kind, name, [i \in 1..Len(bases) |-> classes[bases[i]]],
                                  attrs, order)} :
           /\ classes' = IF made.error = NoError
                         THEN DictSet(RebindOwners(classes, made.cls), name, made.cls)
                         ELSE IF made.cls # NoClass THEN RebindOwners(classes, made.cls)
                         ELSE classes
           /\ result' = [NoResult EXCEPT
                            !.exc = IF made.error = NoError THEN NoExc
                                    ELSE PyError("ValueError", made.error, None),
                            !.ret = IF made.error = NoError THEN "class" ELSE "None"]
    /\ call' = [op |-> "class", kind |-> kind, name |-> name, bases |-> bases, attrs |-> attrs]
    /\ UNCHANGED <<doc, values, values0, uuid_count, other>>

\* doc = cls(**seed)
Construct(c, seed, field_order, seed_order) ==
    /\ doc = NoDocument
    /\ LET st == NewDocument(classes[c], seed, field_order, seed_order, uuid_count)
       IN  /\ doc' = IF st.error = NoError THEN st ELSE NoDocument
           /\ uuid_count' = st.uuid_count
           /\ result' = [NoResult EXCEPT
                            !.exc = IF st.error = NoError THEN NoExc
                                    ELSE PyError("ValueError", st.error, None),
                            !.ret = IF st.error = NoError THEN "instance" ELSE "None"]
    /\ call' = [op |-> "construct", cls |-> c, seed |-> seed, uuid_before |-> uuid_count]
    /\ UNCHANGED <<classes, values, values0, other>>

\* doc.validate()
ValidateDocument(order) ==
    /\ doc # NoDocument
    /\ call.op = "construct"
    /\ LET st == Validate(classes[doc.cls], doc, order)
       IN  /\ result' = [NoResult EXCEPT !.exc = st.exc]
           /\ call' = [op |-> "validate", cls |-> doc.cls, at |-> st.at,
                       validated |-> st.validated, order |-> order]
    /\ UNCHANGED <<classes, doc, values, values0, uuid_count, other>>

\* doc.to_python()
ExportDocument(order) ==
    /\ doc # NoDocument
    /\ call.op = "construct"
    /\ result' = [NoResult EXCEPT !.ret = "mapping",
                                  !.mapping = ToPython(classes[doc.cls], doc, order)]
    /\ call' = [op |-> "to_python", cls |-> doc.cls, seed |-> call.seed]
    /\ UNCHANGED <<classes, doc, values, values0, uuid_count, other>>

\* doc.name = value: the descriptor's __set__ (a ValueError of uuid.UUID
\* leaves the instance as it was)
AssignAttribute(n, value) ==
    /\ doc # NoDocument
    /\ call.op \in {"construct", "assign", "read"}
    /\ LET st == SetAttr(classes[doc.cls], doc, n, value)
       IN  /\ doc' = IF st.error = NoError THEN st ELSE doc
           /\ uuid_count' = st.uuid_count
           /\ result' = [NoResult EXCEPT
                            !.exc = IF st.error = NoError THEN NoExc
                                    ELSE PyError("ValueError", st.error, None)]
    /\ call' = [op |-> "assign", cls |-> doc.cls, seed |-> call.seed, field |-> n]
    /\ UNCHANGED <<classes, values, values0, other>>

\* doc.name: the descriptor's __get__; the call records the value stored
\* for the field, whether the default was called, and the value read
ReadAttribute(n) ==
    /\ doc # NoDocument
    /\ call.op \in {"construct", "assign", "read"}
    /\ n \in DOMAIN classes[doc.cls].descriptors
    /\ LET f == classes[doc.cls].descriptors[n]
           stored == DictGet(doc._data, f.field_name)
       IN  call' = [op |-> "read", cls |-> doc.cls, seed |-> call.seed, field |-> n,
                    stored |-> stored,
                    produced |-> (stored = None /\ Callable(f.default)),
                    value |-> FieldGet(f, doc)]
    /\ result' = NoResult
    /\ UNCHANGED <<classes, doc, values, values0, uuid_count, other>>

\* other = doc: the instance is kept under another name
KeepInstance ==
    /\ doc # NoDocument
    /\ other = NoDocument
    /\ call.op = "construct"
    /\ other' = doc
    /\ doc' = NoDocument
    /\ call' = [op |-> "keep"]
    /\ result' = NoResult
    /\ UNCHANGED <<classes, values, values0, uuid_count>>

\* a == b
Compare(a, b) ==
    /\ LET r == BaseDocument_eq(classes[a.cls], a, classes[b.cls], b)
       IN  result' = [NoResult EXCEPT !.exc = r.exc, !.ret = r.ret]
    /\ call' = [op |-> "eq", self |-> a, other |-> b]
    /\ UNCHANGED <<classes, doc, values, values0, uuid_count, other>>

\* cls.validate_class_fields(values, validate_all) (mode "full") and
\* cls.validate_class_partial(values, validate_all) (mode "partial")
ValidateClass(c, mode, vals, validate_all, order, same_object) ==
    /\ call.op = "class"
    /\ LET r == _validate_helper(classes[c], mode, vals, validate_all, order, same_object)
       IN  /\ result' = [NoResult EXCEPT !.exc = r.exc, !.ret = r.ret, !.errors = r.errors]
           /\ values' = r.values
    /\ values0' = vals
    /\ call' = [op |-> IF mode = "full" THEN "validate_class_fields"
                       ELSE "validate_class_partial",
                cls |-> c, mode |-> mode, validate_all |-> validate_all]
    /\ UNCHANGED <<classes, doc, uuid_count, other>>

validate_class_fields(c, vals, validate_all, order, same_object) ==
    ValidateClass(c, "full", vals, validate_all, order, same_object)

validate_class_partial(c, vals, validate_all, order, same_object) ==
    ValidateClass(c, "partial", vals, validate_all, order, same_object)

\* cls.make_ownersafe(values)
MakeOwnersafe(c, vals, order) ==
    /\ call.op = "class"
    /\ LET r == make_ownersafe(classes[c], vals, order)
       IN  /\ result' = [NoResult EXCEPT !.exc = r.exc,
                                         !.ret = IF r.exc = NoExc THEN "mapping" ELSE "None",
                                         !.mapping = IF r.exc = NoExc THEN r.doc_dict ELSE <<>>]
           /\ values' = r.doc_dict
    /\ values0' = vals
    /\ call' = [op |-> "make_ownersafe", cls |-> c]
    /\ UNCHANGED <<classes, doc, uuid_count, other>>

\* type(doc).make_ownersafe(doc): _safe_data_from_input exports the instance
\* and hands the export to handle_doc
MakeOwnersafeInstance(field_order, order) ==
    /\ doc # NoDocument
    /\ call.op = "construct"
    /\ LET data == ToPython(classes[doc.cls], doc, field_order)
       IN  /\ order \in Orders(DOMAIN data)
           /\ LET r == make_ownersafe(classes[doc.cls], data, order)
              IN  /\ result' = [NoResult EXCEPT
                                   !.exc = r.exc,
                                   !.ret = IF r.exc = NoExc THEN "mapping" ELSE "None",
                                   !.mapping = IF r.exc = NoExc THEN r.doc_dict ELSE <<>>]
                  /\ values' = r.doc_dict
           /\ values0' = data
    /\ call' = [op |-> "make_ownersafe", cls |-> doc.cls]
    /\ UNCHANGED <<classes, doc, uuid_count, other>>

\* cls.make_ownersafe(m) for the mapping m a call of make_ownersafe returned
MakeOwnersafeAgain(order) ==
    /\ call.op = "make_ownersafe"
    /\ result.exc = NoExc
    /\ LET r == make_ownersafe(classes[call.cls], result.mapping, order)
       IN  /\ result' = [NoResult EXCEPT
                            !.exc = r.exc,
                            !.ret = IF r.exc = NoExc THEN "mapping" ELSE "None",
                            !.mapping = IF r.exc = NoExc THEN r.doc_dict ELSE <<>>]
           /\ values' = r.doc_dict
    /\ call' = [op |-> "make_ownersafe_again", cls |-> call.cls, first |-> result.mapping]
    /\ UNCHANGED <<classes, doc, values0, uuid_count, other>>

\* cls.make_publicsafe(values)
MakePublicsafe(c, vals, order) ==
    /\ call.op = "class"
    /\ LET r == make_publicsafe(classes[c], vals, order)
       IN  /\ result' = [NoResult EXCEPT !.exc = r.exc,
                                         !.ret = IF r.exc = NoExc THEN "mapping" ELSE "None",
                                         !.mapping = IF r.exc = NoExc THEN r.doc_dict ELSE <<>>]
           /\ values' = r.doc_dict
    /\ values0' = vals
    /\ call' = [op |-> "make_publicsafe", cls |-> c]
    /\ UNCHANGED <<classes, doc, uuid_count, other>>

-----------------------------------------------------------------------------
(* Schema composition: up to MaxClasses top-level types, each with up to    *)
(* MaxFields declared fields, some of them marked as the identity field.    *)

ComposeFieldNames == {"uid", "key", "name"}

ComposeFields ==
    {f \in Dicts(ComposeFieldNames, {PlainField, IdUUIDField}, MaxFields) :
        /\ "name" \in DOMAIN f => f["name"] = PlainField
        /\ \A n \in (DOMAIN f) \ {"name"} : f[n] = IdUUIDField}

NextCompose ==
    /\ Cardinality(DOMAIN classes) < MaxClasses
    /\ result.exc = NoExc
    /\ \E bases \in BaseLists, fields \in ComposeFields :
        \E order \in Orders(FieldNamesOf(bases, ClassBody(fields, Nothing, Nothing))) :
               DefineClass("top", ClassNames[Cardinality(DOMAIN classes) + 1], bases,
                           ClassBody(fields, Nothing, Nothing), order)

SpecCompose == Init /\ [][NextCompose]_vars

-----------------------------------------------------------------------------
(* Inheritance: hierarchies of up to MaxClasses types of one kind, whose    *)
(* bodies redeclare or add a field and may set meta options.                *)

InheritFieldNames == {"name", "age"}

\* class bodies declaring at most one field; a type without bases declares
\* name as required, a derived type declares it as optional
InheritFields(bases) ==
    {f \in Dicts(InheritFieldNames, {PlainField, RequiredField}, MaxFields) :
        /\ Cardinality(DOMAIN f) <= 1
        /\ "age" \in DOMAIN f => f["age"] = PlainField
        /\ "name" \in DOMAIN f => (f["name"] = RequiredField <=> bases = <<>>)}

\* meta = {}, meta = {'allow_inheritance': False}, meta = {'mixin': True}
InheritMetas ==
    {NoMeta,
     [allow_inheritance |-> Some(FALSE), mixin |-> FALSE],
     [allow_inheritance |-> Nothing, mixin |-> TRUE]}

NextInherit ==
    /\ Cardinality(DOMAIN classes) < MaxClasses
    /\ result.exc = NoExc
    /\ \E kind \in {"top", "embedded"}, bases \in BaseLists, meta \in InheritMetas :
      \E fields \in InheritFields(bases) :
        /\ \A i \in 1..Len(bases) : classes[bases[i]].kind = kind
        /\ \A c \in DOMAIN classes : classes[c].kind = kind
        /\ \E order \in Orders(FieldNamesOf(bases, ClassBody(fields, Nothing, Nothing))) :
               DefineClass(kind, ClassNames[Cardinality(DOMAIN classes) + 1], bases,
                           [ClassBody(fields, Nothing, Nothing) EXCEPT !.meta = meta], order)

SpecInherit == Init /\ [][NextInherit]_vars

-----------------------------------------------------------------------------
(* Document instances: one document type, one instance built from a seed,   *)
(* then validated or exported.                                              *)

DocFieldNames == {"name", "uid"}

\* the declarations a class body may give each field name
DocTemplates(n) ==
    IF n = "name"
    THEN {PlainField, RequiredField, RequiredDefaultField, ChoicesField, RequiredChoicesField,
          ValidatorField, BadValidatorField}
    ELSE {RequiredField, PlainUUIDField, IdUUIDField}

SeedKeys == {"name", "uid", "_id", "bogus"}

SeedVals(k) == IF k = "bogus" THEN {"x"} ELSE {"", "x", "hex-0001", "5"}

DefineDocumentClass ==
    /\ classes = <<>>
    /\ result.exc = NoExc
    /\ \E kind \in {"top", "embedded"}, fields \in DictsBy(DocFieldNames, DocTemplates, MaxFields) :
        \E order \in Orders(DOMAIN fields) :
            DefineClass(kind, ClassNames[1], <<>>, ClassBody(fields, Nothing, Nothing), order)

ConstructDocument ==
    /\ doc = NoDocument
    /\ call.op = "class"
    /\ \E c \in DOMAIN classes, seed \in DictsBy(SeedKeys, SeedVals, MaxKeys) :
        \E field_order \in Orders(DOMAIN classes[c]._fields), seed_order \in Orders(DOMAIN seed) :
            Construct(c, seed, field_order, seed_order)

CallValidate ==
    /\ doc # NoDocument
    /\ \E order \in Orders(DOMAIN classes[doc.cls]._fields) : ValidateDocument(order)

CallToPython ==
    /\ doc # NoDocument
    /\ \E order \in Orders(DOMAIN classes[doc.cls]._fields) : ExportDocument(order)

NextDocument ==
    \/ DefineDocumentClass
    \/ ConstructDocument
    \/ CallValidate
    \/ CallToPython

SpecDocument == Init /\ [][NextDocument]_vars

-----------------------------------------------------------------------------
(* Defaults: one document type whose fields declare defaults, one instance, *)
(* then attribute reads and assignments of None.                            *)

ProducerField == Field("BaseField", None, FALSE, "lambda: 'Bob'", FALSE, None, Nothing)
ZeroDefaultField == Field("BaseField", None, FALSE, "0", FALSE, None, Nothing)
HexDefaultUUIDField == Field("UUIDField", None, FALSE, "hex-0001", FALSE, None, Nothing)
UUIDDefaultUUIDField ==
    Field("UUIDField", None, FALSE, UUIDFromHex("hex-0001"), FALSE, None, Nothing)
BadDefaultUUIDField == Field("UUIDField", None, FALSE, "x", FALSE, None, Nothing)

DefaultsTemplates(n) ==
    IF n = "name" THEN {PlainField, DefaultField, ZeroDefaultField, ProducerField}
    ELSE {HexDefaultUUIDField, UUIDDefaultUUIDField, BadDefaultUUIDField}

DefaultsSeedVals(k) == IF k = "name" THEN {"x"} ELSE {"hex-0001"}

DefineDefaultsClass ==
    /\ classes = <<>>
    /\ result.exc = NoExc
    /\ \E kind \in {"top", "embedded"},
          fields \in DictsBy(DocFieldNames, DefaultsTemplates, MaxFields) :
        \E order \in Orders(DOMAIN fields) :
            DefineClass(kind, ClassNames[1], <<>>, ClassBody(fields, Nothing, Nothing), order)

ConstructDefaults ==
    /\ doc = NoDocument
    /\ call.op = "class"
    /\ \E c \in DOMAIN classes, seed \in DictsBy(DocFieldNames, DefaultsSeedVals, MaxKeys) :
        \E field_order \in Orders(DOMAIN classes[c]._fields), seed_order \in Orders(DOMAIN seed) :
            Construct(c, seed, field_order, seed_order)

AssignNone ==
    /\ doc # NoDocument
    /\ call.op = "construct"
    /\ \E n \in DOMAIN classes[doc.cls]._fields : AssignAttribute(n, None)

CallRead ==
    /\ doc # NoDocument
    /\ \E n \in DOMAIN classes[doc.cls]._fields : ReadAttribute(n)

NextDefaults ==
    \/ DefineDefaultsClass
    \/ ConstructDefaults
    \/ AssignNone
    \/ CallRead

SpecDefaults == Init /\ [][NextDefaults]_vars

-----------------------------------------------------------------------------
(* Seeds: one document type, one instance built from a seed that may hold   *)
(* keys naming no field, then exported.                                     *)

SeedsTemplates(n) == IF n = "name" THEN {PlainField, DefaultField} ELSE {PlainUUIDField}

UnknownSeedKeys == {"bogus", "_data"}

SeedsVals(k) ==
    IF k = "_data" THEN {"{}"}
    ELSE IF k \in {"uid", "_id"} THEN {"hex-0001"}
    ELSE {"x", "Bob"}

DefineSeedsClass ==
    /\ classes = <<>>
    /\ result.exc = NoExc
    /\ \E kind \in {"top", "embedded"},
          fields \in DictsBy(DocFieldNames, SeedsTemplates, MaxFields) :
        \E order \in Orders(DOMAIN fields) :
            DefineClass(kind, ClassNames[1], <<>>, ClassBody(fields, Nothing, Nothing), order)

ConstructSeeded ==
    /\ doc = NoDocument
    /\ call.op = "class"
    /\ \E c \in DOMAIN classes,
          seed \in DictsBy({"name", "_id"} \cup UnknownSeedKeys, SeedsVals, MaxKeys) :
        \E field_order \in Orders(DOMAIN classes[c]._fields), seed_order \in Orders(DOMAIN seed) :
            Construct(c, seed, field_order, seed_order)

NextSeeds ==
    \/ DefineSeedsClass
    \/ ConstructSeeded
    \/ CallToPython

SpecSeeds == Init /\ [][NextSeeds]_vars

-----------------------------------------------------------------------------
(* Equality: a type and possibly a subtype of it, two instances, compared.  *)

\* class bodies: no field, or a field marked as identity that generates nothing
EqualityFields ==
    {f \in Dicts({"uid"}, {IdPlainField}, MaxFields) : TRUE}

EqualitySeeds == {<<>>, [_id |-> "hex-0001"]}

DefineEqualityClass ==
    /\ Cardinality(DOMAIN classes) < MaxClasses - 1
    /\ result.exc = NoExc
    /\ doc = NoDocument
    /\ other = NoDocument
    /\ \E kind \in {"top", "embedded"}, bases \in BaseLists, fields \in EqualityFields :
        /\ Len(bases) <= 1
        /\ \A c \in DOMAIN classes : classes[c].kind = kind
        /\ \E order \in Orders(FieldNamesOf(bases, ClassBody(fields, Nothing, Nothing))) :
               DefineClass(kind, ClassNames[Cardinality(DOMAIN classes) + 1], bases,
                           ClassBody(fields, Nothing, Nothing), order)

ConstructCompared ==
    /\ doc = NoDocument
    /\ call.op \in {"class", "keep"}
    /\ result.exc = NoExc
    /\ \E c \in DOMAIN classes, seed \in EqualitySeeds :
        \E field_order \in Orders(DOMAIN classes[c]._fields), seed_order \in Orders(DOMAIN seed) :
            Construct(c, seed, field_order, seed_order)

CallEq ==
    /\ doc # NoDocument
    /\ call.op = "construct"
    /\ \E a, b \in {doc, other} \ {NoDocument} : Compare(a, b)

NextEquality ==
    \/ DefineEqualityClass
    \/ ConstructCompared
    \/ KeepInstance
    \/ CallEq

SpecEquality == Init /\ [][NextEquality]_vars

-----------------------------------------------------------------------------
(* Export of instances of derived types: a hierarchy of up to MaxClasses    *)
(* top-level types, then one instance of the type defined last, exported.   *)

\* class bodies: no field, an optional field, or a field marked as identity
ExportFields ==
    {f \in Dicts({"name", "uid"}, {PlainField, IdPlainField}, MaxFields) :
        /\ Cardinality(DOMAIN f) <= 1
        /\ "name" \in DOMAIN f => f["name"] = PlainField
        /\ "uid" \in DOMAIN f => f["uid"] = IdPlainField}

ExportSeeds == {<<>>, [name |-> "x"], [_id |-> ""], [_id |-> "5"]}

DefineExportClass ==
    /\ Cardinality(DOMAIN classes) < MaxClasses
    /\ result.exc = NoExc
    /\ doc = NoDocument
    /\ \E bases \in BaseLists, fields \in ExportFields, meta \in InheritMetas :
        \E order \in Orders(FieldNamesOf(bases, ClassBody(fields, Nothing, Nothing))) :
            DefineClass("top", ClassNames[Cardinality(DOMAIN classes) + 1], bases,
                        [ClassBody(fields, Nothing, Nothing) EXCEPT !.meta = meta], order)

ConstructExported ==
    /\ doc = NoDocument
    /\ call.op = "class"
    /\ result.exc = NoExc
    /\ \E seed \in ExportSeeds :
        \E field_order \in Orders(DOMAIN classes[call.name]._fields),
           seed_order \in Orders(DOMAIN seed) :
            Construct(call.name, seed, field_order, seed_order)

NextExport ==
    \/ DefineExportClass
    \/ ConstructExported
    \/ CallToPython

SpecExport == Init /\ [][NextExport]_vars

-----------------------------------------------------------------------------
(* Validation engine: one document type, one call of validate_class_fields  *)
(* or validate_class_partial on a caller's mapping.                         *)

EngineFieldNames == {"name", "ssn"}

EngineTemplates == {PlainField, RequiredField, DefaultField, PlainUUIDField}

EngineKeys == {"name", "ssn", "_id", "_cls", "bogus"}

EngineVals(k) ==
    CASE k \in {"_cls", "bogus"} -> {"x"}
      [] k = "_id" -> {None, "x", "hex-0001"}
      [] OTHER -> {None, " ", "x", "hex-0001"}

DefineEngineClass ==
    /\ classes = <<>>
    /\ result.exc = NoExc
    /\ \E kind \in {"top", "embedded"},
          fields \in Dicts(EngineFieldNames, EngineTemplates, MaxFields),
          private \in {Nothing, Some({"ssn"})} :
        \E order \in Orders(DOMAIN fields) :
            DefineClass(kind, ClassNames[1], <<>>, ClassBody(fields, private, Nothing), order)

CallValidateClassFields ==
    /\ call.op = "class"
    /\ \E c \in DOMAIN classes, vals \in DictsBy(EngineKeys, EngineVals, MaxKeys),
          validate_all \in BOOLEAN, same_object \in BOOLEAN :
        \E order \in Orders(DOMAIN classes[c]._fields) :
            validate_class_fields(c, vals, validate_all, order, same_object)

CallValidateClassPartial ==
    /\ call.op = "class"
    /\ \E c \in DOMAIN classes, vals \in DictsBy(EngineKeys, EngineVals, MaxKeys),
          validate_all \in BOOLEAN, same_object \in BOOLEAN :
        \E order \in Orders(DOMAIN classes[c]._fields) :
            validate_class_partial(c, vals, validate_all, order, same_object)

NextValidate ==
    \/ DefineEngineClass
    \/ CallValidateClassFields
    \/ CallValidateClassPartial

SpecValidate == Init /\ [][NextValidate]_vars

-----------------------------------------------------------------------------
(* Field checks in the validation engine: one document type whose fields    *)
(* declare choices or a custom validator, and one call of the engine.       *)

ChecksTemplates(n) ==
    IF n = "name" THEN {PlainField, ChoicesField, ValidatorField} ELSE {PlainUUIDField}

ChecksVals(k) == IF k = "name" THEN {"x", "5"} ELSE {"x", "hex-0001"}

DefineChecksClass ==
    /\ classes = <<>>
    /\ result.exc = NoExc
    /\ \E kind \in {"top", "embedded"},
          fields \in DictsBy(EngineFieldNames, ChecksTemplates, MaxFields) :
        \E order \in Orders(DOMAIN fields) :
            DefineClass(kind, ClassNames[1], <<>>, ClassBody(fields, Nothing, Nothing), order)

CallChecksFull ==
    /\ call.op = "class"
    /\ \E c \in DOMAIN classes, vals \in DictsBy(EngineFieldNames, ChecksVals, MaxKeys),
          validate_all \in BOOLEAN, same_object \in BOOLEAN :
        \E order \in Orders(DOMAIN classes[c]._fields) :
            validate_class_fields(c, vals, validate_all, order, same_object)

CallChecksPartial ==
    /\ call.op = "class"
    /\ \E c \in DOMAIN classes, vals \in DictsBy(EngineFieldNames, ChecksVals, MaxKeys),
          validate_all \in BOOLEAN, same_object \in BOOLEAN :
        \E order \in Orders(DOMAIN classes[c]._fields) :
            validate_class_partial(c, vals, validate_all, order, same_object)

NextChecks ==
    \/ DefineChecksClass
    \/ CallChecksFull
    \/ CallChecksPartial

SpecChecks == Init /\ [][NextChecks]_vars

-----------------------------------------------------------------------------
(* Safe projections: one document type with its private / public field      *)
(* sets, one call of make_ownersafe or make_publicsafe on a native mapping. *)

SafeKeys == {"_id", "_cls", "name", "ssn"}

SafeVals == {"Bob", "{}", "{'city': 'x'}", "['a']"}

\* native mappings; the reserved keys hold primitives
SafeMappings ==
    {m \in UNION {[D -> SafeVals] : D \in SUBSET SafeKeys} :
        \A k \in (DOMAIN m) \cap {"_id", "_cls"} : m[k] = "Bob"}

DefineSafeClass ==
    /\ classes = <<>>
    /\ result.exc = NoExc
    /\ \E kind \in {"top", "embedded"},
          private \in {Nothing, Some({"ssn"})},
          public \in {Nothing, Some({"name"}), Some({"name", "ssn"}), Some({"name", "_id"})} :
            DefineClass(kind, ClassNames[1], <<>>,
                        ClassBody([n \in {"name"} |-> PlainField], private, public),
                        <<"name">>)

CallMakeOwnersafe ==
    /\ call.op = "class"
    /\ \E c \in DOMAIN classes, vals \in SafeMappings :
        \E order \in Orders(DOMAIN vals) : MakeOwnersafe(c, vals, order)

CallMakePublicsafe ==
    /\ call.op = "class"
    /\ \E c \in DOMAIN classes, vals \in SafeMappings :
        \E order \in Orders(DOMAIN vals) : MakePublicsafe(c, vals, order)

NextSafe ==
    \/ DefineSafeClass
    \/ CallMakeOwnersafe
    \/ CallMakePublicsafe

SpecSafe == Init /\ [][NextSafe]_vars

-----------------------------------------------------------------------------
(* Repeated owner projection: the embedded type E, one document type, one   *)
(* call of make_ownersafe on a mapping or on an instance whose values may   *)
(* be instances of E, and a second call on what the first returned.         *)

RepeatKeys == {"_id", "name", "ssn"}

RepeatVals(k) ==
    IF k = "_id" THEN {"Bob"}
    ELSE {"Bob", "['a']", "E()", "E(city='x')", "[E(city='x')]"}

DefineEmbeddedE ==
    /\ classes = <<>>
    /\ result.exc = NoExc
    /\ \E private \in {Nothing, Some({"city"})} :
           DefineClass("embedded", "E", <<>>,
                       ClassBody([n \in {"city"} |-> PlainField], private, Nothing),
                       <<"city">>)

DefineRepeatClass ==
    /\ DOMAIN classes = {"E"}
    /\ \E kind \in {"top", "embedded"}, private \in {Nothing, Some({"ssn"})},
          fields \in Dicts({"name", "ssn"}, {PlainField}, MaxFields) :
        \E order \in Orders(DOMAIN fields) :
            DefineClass(kind, ClassNames[1], <<>>, ClassBody(fields, private, Nothing), order)

CallOwnersafeOnMapping ==
    /\ call.op = "class"
    /\ ClassNames[1] \in DOMAIN classes
    /\ \E vals \in DictsBy(RepeatKeys, RepeatVals, MaxKeys) :
        \E order \in Orders(DOMAIN vals) : MakeOwnersafe(ClassNames[1], vals, order)

ConstructRepeat ==
    /\ call.op = "class"
    /\ ClassNames[1] \in DOMAIN classes
    /\ \E seed \in DictsBy(DOMAIN classes[ClassNames[1]]._fields, RepeatVals, 1) :
        \E field_order \in Orders(DOMAIN classes[ClassNames[1]]._fields),
           seed_order \in Orders(DOMAIN seed) :
            Construct(ClassNames[1], seed, field_order, seed_order)

CallOwnersafeOnInstance ==
    /\ doc # NoDocument
    /\ \E field_order \in Orders(DOMAIN classes[doc.cls]._fields),
          order \in Orders(DOMAIN ToPython(classes[doc.cls], doc,
                                            CHOOSE o \in Orders(DOMAIN classes[doc.cls]._fields) : TRUE)) :
            MakeOwnersafeInstance(field_order, order)

CallOwnersafeAgain ==
    /\ call.op = "make_ownersafe"
    /\ result.exc = NoExc
    /\ \E order \in Orders(DOMAIN result.mapping) : MakeOwnersafeAgain(order)

NextRepeat ==
    \/ DefineEmbeddedE
    \/ DefineRepeatClass
    \/ CallOwnersafeOnMapping
    \/ ConstructRepeat
    \/ CallOwnersafeOnInstance
    \/ CallOwnersafeAgain

SpecRepeat == Init /\ [][NextRepeat]_vars

-----------------------------------------------------------------------------
(* Claims about the safe projections, checked under SpecSafe. *)

\* the blacklist of a type as the documentation gives it
Blacklist(cls) ==
    {"_id", "id", "_cls", "_types"}
        \cup (IF cls._private_fields = Nothing THEN {} ELSE cls._private_fields[1])

\* C1: make_ownersafe on a native mapping returns normally, and the mapping
\* returned has exactly the keys of the input that are not in the type's
\* blacklist, each with the value it had.
C1_OwnersafeReturnsComplementOfBlacklist ==
    call.op = "make_ownersafe" =>
        /\ result.exc = NoExc
        /\ DOMAIN result.mapping = (DOMAIN values0) \ Blacklist(classes[call.cls])
        /\ \A k \in DOMAIN result.mapping : result.mapping[k] = values0[k]

-----------------------------------------------------------------------------
(* Claims about the validation engine, checked under SpecValidate. *)

EngineCall == call.op \in {"validate_class_fields", "validate_class_partial"}

\* the key of the caller's mapping that belongs to field name n
KeyOfField(n) == IF n = "id" THEN "_id" ELSE n

DeclaredKeys(cls) == {KeyOfField(n) : n \in DOMAIN cls._fields}

FieldOfKey(cls, k) ==
    IF k = "_id" /\ "id" \in DOMAIN cls._fields THEN cls._fields["id"]
    ELSE IF k \in DOMAIN cls._fields /\ k # "id" THEN cls._fields[k]
    ELSE NoField

\* a value that counts as not supplied: absent, None, or a whitespace-only string
NotSupplied(vals, k) == k \notin DOMAIN vals \/ vals[k] = None \/ vals[k] \in {"", " "}

\* key k of the input is an attempt to overwrite an internal field
OverwriteAttempt(cls, vals, k) ==
    /\ k \in DOMAIN vals
    /\ k \in Blacklist(cls)
    /\ vals[k] # FieldOfKey(cls, k).default

\* the input's value for key k fails the kind-specific check of its field
FailsKind(cls, vals, k) ==
    /\ ~NotSupplied(vals, k)
    /\ FieldOfKey(cls, k).kind = "UUIDField"
    /\ vals[k] \notin HexStrs \cup UUIDVals

\* a failure for key k with the given reasons is reported: raised in
\* fail-fast mode, listed in aggregate mode
Reported(k, reasons) ==
    IF call.validate_all
    THEN /\ result.exc = NoExc
         /\ \E i \in 1..Len(result.errors) :
               /\ result.errors[i].type = "ShieldException"
               /\ result.errors[i].field_name = k
               /\ result.errors[i].reason \in reasons
    ELSE /\ result.exc.type = "ShieldException"
         /\ result.exc.reason \in reasons

\* C3: in aggregate mode the engine never raises, and the list it returns
\* has an entry for every per-field failure.
C3_AggregateNeverRaises ==
    (EngineCall /\ call.validate_all) =>
        /\ result.exc = NoExc
        /\ result.ret = "list"
        /\ \A k \in DOMAIN values0 :
              OverwriteAttempt(classes[call.cls], values0, k)
                  => Reported(k, {"Overwrite of internal fields attempted"})
        /\ \A k \in DeclaredKeys(classes[call.cls]) :
              (FailsKind(classes[call.cls], values0, k)
               /\ ~OverwriteAttempt(classes[call.cls], values0, k))
                  => Reported(FieldOfKey(classes[call.cls], k).field_name,
                              {"Not a valid UUID value"})

\* C4: after the engine returns, the caller's mapping holds exactly its
\* former keys that are declared field keys, with their values unchanged.
C4_UnknownFieldsStripped ==
    (EngineCall /\ result.exc = NoExc) =>
        /\ DOMAIN values = (DOMAIN values0) \cap DeclaredKeys(classes[call.cls])
        /\ \A k \in DOMAIN values : values[k] = values0[k]

\* C5: a key of the internal-field set supplied with a value that is not the
\* field's default is reported as 'Overwrite of internal fields attempted'.
C5_InternalOverwriteReported ==
    EngineCall =>
        \A k \in DOMAIN values0 :
            OverwriteAttempt(classes[call.cls], values0, k)
                => Reported(k, {"Overwrite of internal fields attempted"})

\* C6: in full mode a required field whose value is absent, None or blank is
\* reported as a validation failure (a ShieldException, not a type/format
\* one); in partial mode no failure is reported for it.
C6_RequiredMissingFullVsPartial ==
    EngineCall =>
        \A k \in DeclaredKeys(classes[call.cls]) :
            (/\ FieldOfKey(classes[call.cls], k).required
             /\ NotSupplied(values0, k)
             /\ ~OverwriteAttempt(classes[call.cls], values0, k)) =>
                IF call.mode = "full"
                THEN IF call.validate_all
                     THEN /\ result.exc = NoExc
                          /\ \E i \in 1..Len(result.errors) :
                                /\ result.errors[i].field_name = k
                                /\ result.errors[i].reason # "Not a valid UUID value"
                     ELSE /\ result.exc.type = "ShieldException"
                          /\ result.exc.reason # "Not a valid UUID value"
                ELSE /\ result.exc.field_name # k
                     /\ \A i \in 1..Len(result.errors) : result.errors[i].field_name # k

-----------------------------------------------------------------------------
(* Claims about document instances, checked under SpecDocument. *)

\* the current value of field `name` of the instance
ValueOf(name) == GetAttr(classes[doc.cls], doc, name)

\* the value of field `name` is present, not empty, and fails the field's
\* choices, custom validator or kind-specific check
FailsCheck(name) ==
    /\ ValueOf(name) \notin {None, ""}
    /\ Field_validate(classes[doc.cls]._fields[name], ValueOf(name)) # NoExc

\* C7: validate() raises, at the first field that fails its choices, custom
\* validator or kind check, a ShieldException carrying that field's name and
\* value; nothing but a ShieldException escapes validate().
C7_ValidateRaisesTypedFailure ==
    call.op = "validate" =>
        /\ result.exc.type \in {"None", "ShieldException"}
        /\ \A name \in DOMAIN classes[call.cls]._fields :
              (call.at = name /\ FailsCheck(name)) =>
                  /\ result.exc.type = "ShieldException"
                  /\ result.exc.field_name = name
                  /\ result.exc.field_value = ValueOf(name)

\* C8: a field whose value is the empty string or None is never handed to
\* _validate; when it is required validate() does not return normally, and
\* the exception raised on reaching it is ShieldException 'Required field
\* missing' for that field; when it is not required it raises nothing.
C8_EmptyIsAbsent ==
    call.op = "validate" =>
        \A name \in DOMAIN classes[call.cls]._fields :
            ValueOf(name) \in {None, ""} =>
                /\ name \notin call.validated
                /\ classes[call.cls]._fields[name].required =>
                      /\ result.exc # NoExc
                      /\ call.at = name =>
                            result.exc = ShieldException("Required field missing", name,
                                                         ValueOf(name))
                /\ ~classes[call.cls]._fields[name].required =>
                      ~(call.at = name /\ result.exc # NoExc)

C8_Witness ==
    /\ call.op = "validate"
    /\ call.at = "name"
    /\ "name" \in DOMAIN doc._data
    /\ doc._data["name"] = ""
    /\ classes[call.cls]._fields["name"].required
    /\ classes[call.cls]._fields["name"].default # None
    /\ call.validated # {}
    /\ result.exc = ShieldException("Required field missing", "name", "")

\* a top-level type none of whose fields is marked as the identity field
NoDeclaredIdentity(cls) ==
    /\ cls.kind = "top"
    /\ \A n \in DOMAIN cls._fields : ~cls._fields[n].id_field

\* C9: a top-level type that declares no identity field has exactly one field
\* serialized as _id, registered under the name id; an instance built
\* with no identity input holds a UUID generated during its construction,
\* and its export writes that UUID under the key _id.
C9_IdentityAutoGenerated ==
    /\ \A c \in DOMAIN classes :
          NoDeclaredIdentity(classes[c]) =>
              /\ classes[c]._meta.id_field = "id"
              /\ {n \in DOMAIN classes[c]._fields : classes[c]._fields[n].uniq_field = "_id"}
                     = {"id"}
    /\ (/\ call.op \in {"construct", "to_python"}
        /\ doc # NoDocument
        /\ NoDeclaredIdentity(classes[call.cls])
        /\ "_id" \notin DOMAIN call.seed) =>
              /\ ValueOf("id") \in UUIDVals
              /\ Truthy(ValueOf("id"))
              /\ \E n \in 1..doc.uuid_count : ValueOf("id") = uuid4(n)
              /\ call.op = "construct" =>
                    \E n \in (call.uuid_before + 1)..doc.uuid_count : ValueOf("id") = uuid4(n)
              /\ call.op = "to_python" =>
                    /\ "_id" \in DOMAIN result.mapping
                    /\ result.mapping["_id"] = ValueOf("id")

C9_Witness ==
    /\ call.op = "to_python"
    /\ NoDeclaredIdentity(classes[call.cls])
    /\ DOMAIN call.seed = {"name"}
    /\ "uid" \in DOMAIN classes[call.cls]._fields
    /\ "_id" \in DOMAIN result.mapping
    /\ result.mapping["_id"] \in {uuid4(1), uuid4(2)}
    /\ "name" \in DOMAIN result.mapping

-----------------------------------------------------------------------------
(* Claims about schema composition, checked under SpecCompose. *)

\* the fields of a composed schema that are an identity field: marked
\* id_field, or the one synthesized for a type without one
IdentityFields(cls) ==
    {n \in DOMAIN cls._fields : cls._fields[n].id_field \/ cls._fields[n] = SynthesizedId}

\* the identity-field names claimed in a class statement: by its own
\* fields marked id_field and by each of its bases
IdentityClaims(c) ==
    {n \in DOMAIN c.attrs.fields : c.attrs.fields[n].id_field}
        \cup {classes[c.bases[i]]._meta.id_field : i \in 1..Len(c.bases)}

\* C10: every composed top-level schema has exactly one identity field, and a
\* class statement in which more than one identity field is claimed (by two
\* marked fields, or by a marked field and an ancestor fixing another one)
\* fails with ValueError 'Cannot override id_field'.
C10_SingleIdentityField ==
    /\ \A c \in DOMAIN classes :
          classes[c].kind = "top" =>
              /\ Cardinality(IdentityFields(classes[c])) = 1
              /\ IdentityFields(classes[c]) = {classes[c]._meta.id_field}
    /\ (call.op = "class" /\ call.kind = "top" /\ Cardinality(IdentityClaims(call)) > 1) =>
          /\ result.exc = PyError("ValueError", "ValueError: Cannot override id_field", None)
          /\ call.name \notin DOMAIN classes

-----------------------------------------------------------------------------
(* Claims about inheritance, checked under SpecInherit. *)

\* the class statement last executed composed its type
Composed == call.op = "class" /\ result.exc = NoExc

\* name n of type c holds the very descriptor that ancestor a holds under n
HoldsDescriptorOf(c, a, n) ==
    /\ n \in DOMAIN classes[a]._fields
    /\ classes[a].origin[n] = classes[c].origin[n]
    /\ classes[a]._fields[n] = classes[c]._fields[n]

C11_FieldsOfAncestorsKept ==
    \A c \in DOMAIN classes :
        /\ \A a \in classes[c].ancestors :
              DOMAIN classes[a]._fields \subseteq DOMAIN classes[c]._fields
        /\ \A n \in DOMAIN classes[c]._fields :
              \/ classes[c].origin[n] = c
              \/ \E a \in classes[c].ancestors : HoldsDescriptorOf(c, a, n)

C11_OwnDescriptorWins ==
    Composed =>
        \A n \in DOMAIN call.attrs.fields :
            /\ classes[call.name]._fields[n] = BindField(n, call.attrs.fields[n])
            /\ classes[call.name].origin[n] = call.name

C11_AncestorsUnchanged ==
    \A a \in DOMAIN classes :
        /\ a \in DOMAIN classes'
        /\ classes'[a]._fields = classes[a]._fields
        /\ classes'[a].origin = classes[a].origin

\* C11: a composed type's field mapping contains every field name of every
\* ancestor; a name redeclared on the type holds the type's own descriptor,
\* every other inherited name holds an ancestor's descriptor; and composing a
\* type leaves the names and descriptors of every existing field mapping as
\* they were.
C11_InheritanceFieldUnion ==
    /\ [](C11_FieldsOfAncestorsKept /\ C11_OwnDescriptorWins)
    /\ [][C11_AncestorsUnchanged]_vars

C11_Witness ==
    /\ Composed
    /\ Len(call.bases) = 1
    /\ classes[call.bases[1]].ancestors # {}
    /\ "name" \in DOMAIN call.attrs.fields
    /\ "name" \in DOMAIN classes[call.bases[1]]._fields
    /\ classes[call.bases[1]]._fields["name"].required
    /\ ~classes[call.name]._fields["name"].required
    /\ "age" \in DOMAIN classes[call.name]._fields
    /\ classes[call.name].origin["age"] # call.name

\* the bases of the class statement last executed that are not flagged as
\* mixins, in the order listed
RECURSIVE NonMixinChains(_, _)
NonMixinChains(bases, i) ==
    IF i > Len(bases) THEN <<>>
    ELSE IF classes[bases[i]]._meta.mixin THEN NonMixinChains(bases, i + 1)
    ELSE <<classes[bases[i]]._class_name>> \o NonMixinChains(bases, i + 1)

\* C12: the discriminator of a composed type is the dot-joined chain of its
\* non-mixin lineage ending in its own name, and its ancestor map holds the
\* lineage of its non-mixin bases only: a mixin base contributes neither its
\* class name nor the lineage it brings.
C12_DiscriminatorChainSkipsMixins ==
    Composed =>
        /\ classes[call.name]._class_name =
              JoinDots(Reversed(<<call.name>> \o NonMixinChains(call.bases, 1)))
        /\ classes[call.name]._superclasses =
              UNION {{classes[call.bases[i]]._class_name}
                         \cup classes[call.bases[i]]._superclasses :
                     i \in {j \in 1..Len(call.bases) : ~classes[call.bases[j]]._meta.mixin}}

\* no composed type is or descends from a locked type other than as a
\* direct descendant of the root without descendants of its own
C13_LockedTypesAreLeavesBelowRoot ==
    \A c \in DOMAIN classes :
        classes[c]._meta.allow_inheritance = FALSE =>
            /\ classes[c].ancestors = {}
            /\ \A d \in DOMAIN classes : c \notin classes[d].ancestors

\* the class statement last executed failed with a ValueError and defined nothing
ConfigurationError ==
    /\ result.exc.type = "ValueError"
    /\ call.name \notin DOMAIN classes

\* C13: a type with allow_inheritance = False is a direct descendant of the
\* root and has no descendants; composing beneath such a type, or setting
\* allow_inheritance = False anywhere but directly below the root, fails with
\* a ValueError; directly below the root it succeeds.
C13_SubclassingLock ==
    /\ C13_LockedTypesAreLeavesBelowRoot
    /\ call.op = "class" =>
          /\ (\E i \in 1..Len(call.bases) :
                 classes[call.bases[i]]._meta.allow_inheritance = FALSE)
                => ConfigurationError
          /\ (call.attrs.meta.allow_inheritance = Some(FALSE) /\ call.bases # <<>>)
                => ConfigurationError
          /\ (call.attrs.meta.allow_inheritance = Some(FALSE) /\ call.bases = <<>>)
                => /\ result.exc = NoExc
                   /\ call.name \in DOMAIN classes
                   /\ classes[call.name]._meta.allow_inheritance = FALSE

C13_Witness ==
    /\ call.op = "class"
    /\ Len(call.bases) = 2
    /\ classes[call.bases[1]]._meta.allow_inheritance = TRUE
    /\ classes[call.bases[2]]._meta.allow_inheritance = FALSE
    /\ ConfigurationError

-----------------------------------------------------------------------------
(* Claims about the export of instances, checked under SpecExport. *)

\* the chains of the ancestors that make up the lineage of a type
LineageChains(cls) ==
    {classes[a]._class_name : a \in {x \in cls.ancestors : ~classes[x]._meta.mixin}}

\* C14: the export of an instance holds _cls (the type's chain) and _types
\* (the chains of its ancestors, then its own) exactly when the type allows
\* subclassing; every field whose value is not None is exported under its
\* serialized name, except that _id is never exported with a falsy value.
C14_ExportPolymorphicIdentity ==
    call.op = "to_python" =>
        /\ classes[call.cls]._meta.allow_inheritance = TRUE =>
              /\ {"_cls", "_types"} \subseteq DOMAIN result.mapping
              /\ result.mapping["_cls"] = classes[call.cls]._class_name
              /\ result.mapping["_types"] = [keys |-> LineageChains(classes[call.cls]),
                                            last |-> classes[call.cls]._class_name]
        /\ classes[call.cls]._meta.allow_inheritance = FALSE =>
              {"_cls", "_types"} \cap DOMAIN result.mapping = {}
        /\ \A n \in DOMAIN classes[call.cls]._fields :
              (/\ ValueOf(n) # None
               /\ ~(classes[call.cls]._fields[n].uniq_field = "_id" /\ ~Truthy(ValueOf(n)))) =>
                  /\ classes[call.cls]._fields[n].uniq_field \in DOMAIN result.mapping
                  /\ result.mapping[classes[call.cls]._fields[n].uniq_field] = ValueOf(n)
        /\ "_id" \in DOMAIN result.mapping => Truthy(result.mapping["_id"])

C14_Witness ==
    /\ call.op = "to_python"
    /\ Cardinality(classes[call.cls].ancestors) = 2
    /\ classes[call.cls]._meta.allow_inheritance = TRUE
    /\ "_types" \in DOMAIN result.mapping
    /\ Cardinality(result.mapping["_types"].keys) = 2
    /\ {"name", "_id"} \subseteq DOMAIN result.mapping
    /\ result.mapping["name"] = "x"

-----------------------------------------------------------------------------
(* Claims about defaults, checked under SpecDefaults. *)

\* field n of the type declares a default that is a plain value
HasPlainDefault(cls, n) ==
    /\ cls._fields[n].default # None
    /\ ~Callable(cls._fields[n].default)

\* C15: a document constructed with no seed for a field that declares a
\* non-producer default d reads back exactly d for it; a read of a field
\* with a producer default made while nothing is stored for it calls the
\* producer and returns what it produced.
C15_DefaultRoundTrip ==
    /\ call.op = "construct" =>
          \A n \in (DOMAIN classes[call.cls]._fields) \ DOMAIN call.seed :
              HasPlainDefault(classes[call.cls], n) =>
                  /\ result.exc = NoExc
                  /\ doc # NoDocument
                  /\ ValueOf(n) = classes[call.cls]._fields[n].default
    /\ (call.op = "read" /\ call.stored = None
        /\ Callable(classes[call.cls]._fields[call.field].default)) =>
              /\ call.produced
              /\ call.value = CallProducer(classes[call.cls]._fields[call.field].default)

-----------------------------------------------------------------------------
(* Claims about equality, checked under SpecEquality. *)

\* the identity value of an instance can be resolved: it has an attribute
\* id whose value is not None
HasIdentity(inst) ==
    /\ HasAttr(classes[inst.cls], inst, "id")
    /\ GetAttr(classes[inst.cls], inst, "id") # None

\* C16: a == b is True exactly when a and b are of the same concrete type,
\* both have a resolvable identity value, and those values are equal; the
\* comparison itself never raises.
C16_EqualityBySameTypeAndIdentity ==
    call.op = "eq" =>
        /\ result.exc = NoExc
        /\ result.ret = "True" <=>
              /\ call.self.cls = call.other.cls
              /\ HasIdentity(call.self)
              /\ HasIdentity(call.other)
              /\ GetAttr(classes[call.self.cls], call.self, "id")
                    = GetAttr(classes[call.other.cls], call.other, "id")

-----------------------------------------------------------------------------
(* Claims about seeds, checked under SpecSeeds. *)

\* the seed restricted to the keys that name a schema field, _id naming
\* the identity field
KnownSeed(cls, seed) ==
    [k \in {x \in DOMAIN seed : \/ x \in DOMAIN cls._fields
                                \/ (x = "_id" /\ "id" \in DOMAIN cls.descriptors)}
        |-> seed[k]]

\* the instances that construction from the known part of the seed can give
FromKnownSeed(cls, seed, n) ==
    {NewDocument(cls, KnownSeed(cls, seed), fo, so, n) :
        fo \in Orders(DOMAIN cls._fields), so \in Orders(DOMAIN KnownSeed(cls, seed))}

\* C17: construction never raises because of a seed key that names no field,
\* and the instance has the values store and the export of an instance
\* built from the seed restricted to the keys that name fields.
C17_UnknownSeedKeysIgnored ==
    /\ call.op = "construct" =>
          \E d \in FromKnownSeed(classes[call.cls], call.seed, call.uuid_before) :
              /\ (d.error = NoError) <=> (result.exc = NoExc)
              /\ doc # NoDocument => doc._data = d._data
    /\ call.op = "to_python" =>
          \E d \in FromKnownSeed(classes[call.cls], call.seed, 0),
             order \in Orders(DOMAIN classes[call.cls]._fields) :
              result.mapping = ToPython(classes[call.cls], d, order)

-----------------------------------------------------------------------------
(* Claims about field checks in the engine, checked under SpecChecks. *)

\* the value given for field k is outside the field's choices or is
\* rejected by its custom validator
FailsChoicesOrValidator(f, value) ==
    \/ f.choices # Nothing /\ value \notin f.choices[1]
    \/ ValidationCallable(f.validation) /\ ~ValidationAccepts(f.validation, value)

\* C18: a non-empty value given to the engine for a non-internal field that
\* is outside the field's choices or fails its custom validator is reported:
\* the call raises in fail-fast mode and lists a failure for the field in
\* aggregate mode.
C18_EngineEnforcesChoicesAndValidator ==
    EngineCall =>
        \A k \in (DOMAIN values0) \cap DOMAIN classes[call.cls]._fields :
            (/\ k \notin Blacklist(classes[call.cls])
             /\ ~NotSupplied(values0, k)
             /\ FailsChoicesOrValidator(classes[call.cls]._fields[k], values0[k])) =>
                IF call.validate_all
                THEN \E i \in 1..Len(result.errors) : result.errors[i].field_name = k
                ELSE result.exc # NoExc

\* C19: when validate_class_fields or validate_class_partial in fail-fast
\* mode ends by raising, the caller's mapping is exactly as it was before the
\* call: no key has been deleted and no value changed.
C19_NoPartialMutationOnFailure ==
    (EngineCall /\ ~call.validate_all /\ result.exc # NoExc) => values = values0

\* a fail-fast call that raised on a mapping holding a key no field declares
C19_Witness ==
    /\ EngineCall
    /\ ~call.validate_all
    /\ result.exc # NoExc
    /\ \E k \in DOMAIN values0 : k \notin DeclaredKeys(classes[call.cls])

-----------------------------------------------------------------------------
(* Claim about the repeated owner projection, checked under SpecRepeat. *)

\* C20: make_ownersafe is idempotent: applied to the mapping a call of
\* make_ownersafe returned, it returns normally and yields a mapping equal
\* to that first result.
C20_OwnersafeIdempotent ==
    call.op = "make_ownersafe_again" =>
        /\ result.exc = NoExc
        /\ result.mapping = call.first

====
